---------------------------- MODULE Spec2Model ----------------------------
(***************************************************************************)
(* A model of cavalier_contours' Polyline (src/polyline.rs): the vertex    *)
(* container, its segment traversals, invert_direction, the approximate     *)
(* spatial index and the winding number / signed area queries.              *)
(*                                                                          *)
(* A vertex is a record [x, y, bulge].  Coordinates and bulges are drawn    *)
(* from integers, so that every comparison the code makes on its Real type  *)
(* is decided exactly.  |bulge| = 1 is a half circle.                       *)
(* Vertex indexes are 0-based as in the source: At(v, i) is v[i] there.     *)
(***************************************************************************)
EXTENDS Integers, Sequences, FiniteSets, TLC

VARIABLES
    vertex_data,    \* Polyline.vertex_data: the sequence of vertexes
    is_closed,      \* Polyline.is_closed
    pre,            \* history: the polyline [vertex_data, is_closed] before the current run of
                    \* invert_direction calls, or before the last extend_vertexes
    inverts,        \* history: number of invert_direction calls in the current run
    ret             \* what the last call returned: [op, arg, val]; op = "none" after a mutation

vars == <<vertex_data, is_closed, pre, inverts, ret>>

-----------------------------------------------------------------------------
(* Bounds of the model and the sets the inputs are drawn from.              *)

MaxLen == 3         \* longest polyline the container specification builds
MaxInverts == 2     \* longest run of consecutive invert_direction calls
MaxGeomLen == 3     \* longest polyline the geometric specification draws
MaxLoopLen == 2     \* longest loop (sub-polyline) of the loop specification
MaxQueryLen == 3    \* longest polyline the query specification draws

\* Vertex positions and bulges of the container specification
Positions == {<<0, 0>>, <<2, 0>>, <<2, 2>>}
Bulges == {-1, 0, 1}

\* Vertex positions and query points of the geometric specifications
GeomPositions == {<<0, 0>>, <<4, 0>>, <<2, 2>>}
Points == {<<1, 0>>, <<-1, 0>>, <<3, 0>>, <<2, 1>>, <<2, -1>>, <<0, 2>>, <<3, 1>>, <<2, 0>>}

PlineVertex(x, y, b) == [x |-> x, y |-> y, bulge |-> b]

None == [op |-> "none", arg |-> <<>>, val |-> <<>>]

\* the history when the last mutation was neither invert_direction nor extend_vertexes
NoPre == [vertex_data |-> <<>>, is_closed |-> FALSE]

Snapshot == [vertex_data |-> vertex_data, is_closed |-> is_closed]

At(v, i) == v[i + 1]

Pos(v) == <<v.x, v.y>>

Abs(n) == IF n < 0 THEN -n ELSE n

Sgn(n) == IF n < 0 THEN -1 ELSE IF n > 0 THEN 1 ELSE 0

-----------------------------------------------------------------------------
(* Segment traversal.                                                       *)

\* PlineSegIndexIterator::new
SegIndexNew(vertex_count, closed) ==
    [pos |-> 1,
     remaining |-> IF vertex_count < 2 THEN 0
                   ELSE IF closed THEN vertex_count
                   ELSE vertex_count - 1,
     is_closed_first_pass |-> closed]

\* A faulty variant of SegIndexNext, which C1 tells from it: the wraparound
\* pair is yielded the wrong way round, (0, n-1).
SegIndexNextWrapSwapped(it) ==
    IF it.remaining = 0
    THEN [it |-> it, item |-> <<>>]
    ELSE IF it.is_closed_first_pass
         THEN [it |-> [it EXCEPT !.remaining = it.remaining - 1,
                                 !.is_closed_first_pass = FALSE],
               item |-> <<0, it.remaining - 1>>]
         ELSE [it |-> [it EXCEPT !.remaining = it.remaining - 1,
                                 !.pos = it.pos + 1],
               item |-> <<it.pos - 1, it.pos>>]

\* PlineSegIndexIterator::next: the iterator after the call and the item
\* (<<>> for Option::None, <<i, j>> for Some((i, j))).
SegIndexNext(it) ==
    IF it.remaining = 0
    THEN [it |-> it, item |-> <<>>]
    ELSE IF it.is_closed_first_pass
         THEN [it |-> [it EXCEPT !.remaining = it.remaining - 1,
                                 !.is_closed_first_pass = FALSE],
               item |-> <<it.remaining - 1, 0>>]
         ELSE [it |-> [it EXCEPT !.remaining = it.remaining - 1,
                                 !.pos = it.pos + 1],
               item |-> <<it.pos - 1, it.pos>>]

RECURSIVE SegIndexCollect(_)
SegIndexCollect(it) ==
    LET r == SegIndexNext(it)
    IN  IF r.item = <<>> THEN <<>> ELSE <<r.item>> \o SegIndexCollect(r.it)

\* Polyline::iter_segment_indexes, collected
IterSegmentIndexes(vd, closed) == SegIndexCollect(SegIndexNew(Len(vd), closed))

\* PlineSegIterator::new; w is the 0-based start of the next window of windows(2)
SegIterNew(vd, closed) ==
    [w |-> 0,
     is_closed_first_pass |-> IF Len(vd) < 2 THEN FALSE ELSE closed]

\* PlineSegIterator::next
SegIterNext(vd, it) ==
    IF it.is_closed_first_pass
    THEN [it |-> [it EXCEPT !.is_closed_first_pass = FALSE],
          item |-> <<At(vd, Len(vd) - 1), At(vd, 0)>>]
    ELSE IF it.w + 2 <= Len(vd)
         THEN [it |-> [it EXCEPT !.w = it.w + 1],
               item |-> <<At(vd, it.w), At(vd, it.w + 1)>>]
         ELSE [it |-> it, item |-> <<>>]

RECURSIVE SegIterCollect(_, _)
SegIterCollect(vd, it) ==
    LET r == SegIterNext(vd, it)
    IN  IF r.item = <<>> THEN <<>> ELSE <<r.item>> \o SegIterCollect(vd, r.it)

\* Polyline::iter_segments, collected
IterSegments(vd, closed) == SegIterCollect(vd, SegIterNew(vd, closed))

\* The while loop of Polyline::visit_segments over windows(2): w is the 0-based
\* start of the next window, calls the number of visitor calls made so far.
\* The visitor answers false on its stop_at-th call (stop_at = 0: never).
RECURSIVE VisitWindows(_, _, _, _)
VisitWindows(vd, w, calls, stop_at) ==
    IF w + 2 > Len(vd) THEN <<>>
    ELSE IF calls + 1 = stop_at
         THEN << <<At(vd, w), At(vd, w + 1)>> >>
         ELSE << <<At(vd, w), At(vd, w + 1)>> >>
              \o VisitWindows(vd, w + 1, calls + 1, stop_at)

\* A faulty variant of VisitSegments, which C2 tells from it: the wraparound
\* segment of a closed polyline is visited after the forward ones.
VisitSegmentsWrapLast(vd, closed, stop_at) ==
    LET ln == Len(vd)
        forward == VisitWindows(vd, 0, 0, stop_at)
    IN  IF ln < 2 THEN <<>>
        ELSE IF closed /\ (stop_at = 0 \/ stop_at > Len(forward))
             THEN Append(forward, <<At(vd, ln - 1), At(vd, 0)>>)
             ELSE forward

\* A faulty variant of VisitSegments, which C18 tells from it: a false answer
\* on the wraparound segment does not stop the forward segments being visited.
VisitSegmentsWrapNoStop(vd, closed, stop_at) ==
    LET ln == Len(vd)
    IN  IF ln < 2 THEN <<>>
        ELSE IF closed
             THEN << <<At(vd, ln - 1), At(vd, 0)>> >> \o VisitWindows(vd, 0, 1, stop_at)
             ELSE VisitWindows(vd, 0, 0, stop_at)

\* Polyline::visit_segments: the sequence of pairs the visitor was called with
VisitSegments(vd, closed, stop_at) ==
    LET ln == Len(vd)
    IN  IF ln < 2 THEN <<>>
        ELSE IF closed
             THEN IF stop_at = 1
                  THEN << <<At(vd, ln - 1), At(vd, 0)>> >>
                  ELSE << <<At(vd, ln - 1), At(vd, 0)>> >>
                       \o VisitWindows(vd, 0, 1, stop_at)
             ELSE VisitWindows(vd, 0, 0, stop_at)

-----------------------------------------------------------------------------
(* Mutators.                                                                *)

\* Polyline::new / Polyline::new_closed
Init ==
    /\ vertex_data = <<>>
    /\ is_closed \in BOOLEAN
    /\ pre = NoPre
    /\ inverts = 0
    /\ ret = None

\* Polyline::add
Add(x, y, b) ==
    /\ Len(vertex_data) < MaxLen
    /\ vertex_data' = Append(vertex_data, PlineVertex(x, y, b))
    /\ pre' = NoPre
    /\ inverts' = 0
    /\ ret' = None
    /\ UNCHANGED is_closed

\* Polyline::set_is_closed
SetIsClosed(b) ==
    /\ is_closed' = b
    /\ pre' = NoPre
    /\ inverts' = 0
    /\ ret' = None
    /\ UNCHANGED vertex_data

\* Polyline::clear
Clear ==
    /\ vertex_data' = <<>>
    /\ pre' = NoPre
    /\ inverts' = 0
    /\ ret' = None
    /\ UNCHANGED is_closed

\* Polyline::remove_last: self.remove(self.len() - 1); on an empty polyline the
\* index is out of range and Vec::remove panics with the vertexes untouched.
RemoveLast ==
    /\ IF Len(vertex_data) = 0
       THEN /\ ret' = [op |-> "remove_last", arg |-> <<>>, val |-> "panic"]
            /\ UNCHANGED vertex_data
       ELSE /\ vertex_data' = SubSeq(vertex_data, 1, Len(vertex_data) - 1)
            /\ ret' = [op |-> "remove_last", arg |-> <<>>, val |-> "ok"]
    /\ pre' = NoPre
    /\ inverts' = 0
    /\ UNCHANGED is_closed

\* The loop `for i in 1..ln { self[i - 1].bulge = -self[i].bulge; }` of
\* invert_direction, from index i on.
RECURSIVE ShiftBulges(_, _)
ShiftBulges(v, i) ==
    IF i >= Len(v) THEN v
    ELSE ShiftBulges([v EXCEPT ![i].bulge = -At(v, i).bulge], i + 1)

\* Vec::reverse
Reverse(v) == [i \in 1..Len(v) |-> v[Len(v) + 1 - i]]

\* A faulty variant of InvertedVertexes, which C4 tells from it: the last
\* bulge of a closed polyline is left as the reversal and the shift leave it.
InvertedVertexesStaleLast(vd, closed) ==
    IF Len(vd) < 2 THEN vd ELSE ShiftBulges(Reverse(vd), 1)

\* Polyline::invert_direction: the vertex sequence it leaves
InvertedVertexes(vd, closed) ==
    LET ln == Len(vd)
    IN  IF ln < 2 THEN vd
        ELSE LET reversed == Reverse(vd)
                 first_bulge == At(reversed, 0).bulge
                 shifted == ShiftBulges(reversed, 1)
             IN  IF closed
                 THEN [shifted EXCEPT ![ln].bulge = -first_bulge]
                 ELSE shifted

\* Polyline::invert_direction
InvertDirection ==
    /\ inverts < MaxInverts
    /\ vertex_data' = InvertedVertexes(vertex_data, is_closed)
    /\ pre' = IF inverts = 0 THEN Snapshot ELSE pre
    /\ inverts' = inverts + 1
    /\ ret' = None
    /\ UNCHANGED is_closed

\* the epsilons and the vertex values the index-bounded mutators are called with
Epsilons == {1, 3}
SetValues == {<<2, 2, 1>>, <<0, 0, -1>>}

\* FuzzyEq::fuzzy_eq_eps on T: (a - b).abs() < eps
fuzzy_eq_eps(a, b, eps) == Abs(a - b) < eps

\* A faulty variant of AddOrReplaceVertexes, which C15 tells from it: only the
\* x of the last vertex is compared.
AddOrReplaceVertexesXOnly(vd, x, y, bulge, pos_equal_eps) ==
    LET ln == Len(vd)
    IN  IF ln = 0 THEN Append(vd, PlineVertex(x, y, bulge))
        ELSE IF fuzzy_eq_eps(vd[ln].x, x, pos_equal_eps)
             THEN [vd EXCEPT ![ln].bulge = bulge]
             ELSE Append(vd, PlineVertex(x, y, bulge))

\* Polyline::add_or_replace: the vertex sequence it leaves
AddOrReplaceVertexes(vd, x, y, bulge, pos_equal_eps) ==
    LET ln == Len(vd)
    IN  IF ln = 0 THEN Append(vd, PlineVertex(x, y, bulge))
        ELSE IF /\ fuzzy_eq_eps(vd[ln].x, x, pos_equal_eps)
                /\ fuzzy_eq_eps(vd[ln].y, y, pos_equal_eps)
             THEN [vd EXCEPT ![ln].bulge = bulge]
             ELSE Append(vd, PlineVertex(x, y, bulge))

\* Polyline::add_or_replace
AddOrReplace(x, y, bulge, pos_equal_eps) ==
    /\ Len(AddOrReplaceVertexes(vertex_data, x, y, bulge, pos_equal_eps)) <= MaxLen
    /\ vertex_data' = AddOrReplaceVertexes(vertex_data, x, y, bulge, pos_equal_eps)
    /\ ret' = [op |-> "add_or_replace", arg |-> <<x, y, bulge, pos_equal_eps>>, val |-> "ok"]
    /\ pre' = NoPre
    /\ inverts' = 0
    /\ UNCHANGED is_closed

\* A faulty variant of RemovedVertexes, which C16 tells from it: an index past
\* the end is clamped to the last vertex.
RemovedVertexesClamped(vd, index) ==
    IF Len(vd) = 0 THEN [panic |-> TRUE, vertex_data |-> vd]
    ELSE LET i == IF index >= Len(vd) THEN Len(vd) - 1 ELSE index
         IN  [panic |-> FALSE,
              vertex_data |-> SubSeq(vd, 1, i) \o SubSeq(vd, i + 2, Len(vd))]

\* Vec::remove as Polyline::remove calls it: a panic on an index that is not
\* below the length, before anything is moved; else the vertex is taken out and
\* the later ones move down.
RemovedVertexes(vd, index) ==
    IF index >= Len(vd) THEN [panic |-> TRUE, vertex_data |-> vd]
    ELSE [panic |-> FALSE,
          vertex_data |-> SubSeq(vd, 1, index) \o SubSeq(vd, index + 2, Len(vd))]

\* Polyline::remove
Remove(index) ==
    LET r == RemovedVertexes(vertex_data, index)
    IN  /\ vertex_data' = r.vertex_data
        /\ ret' = [op |-> "remove", arg |-> index,
                   val |-> IF r.panic THEN "panic" ELSE "ok"]
        /\ pre' = NoPre
        /\ inverts' = 0
        /\ UNCHANGED is_closed

\* Polyline::set_vertex: self.vertex_data[index] panics on an index that is not
\* below the length, before the first field is written.
SetVertex(index, x, y, bulge) ==
    /\ IF index >= Len(vertex_data)
       THEN /\ ret' = [op |-> "set_vertex", arg |-> <<index, x, y, bulge>>, val |-> "panic"]
            /\ UNCHANGED vertex_data
       ELSE /\ vertex_data' = [vertex_data EXCEPT ![index + 1] = PlineVertex(x, y, bulge)]
            /\ ret' = [op |-> "set_vertex", arg |-> <<index, x, y, bulge>>, val |-> "ok"]
    /\ pre' = NoPre
    /\ inverts' = 0
    /\ UNCHANGED is_closed

-----------------------------------------------------------------------------
(* Queries: each leaves the polyline alone and records what it returned.    *)

Query(op, arg, val) ==
    /\ ret' = [op |-> op, arg |-> arg, val |-> val]
    /\ UNCHANGED <<vertex_data, is_closed, pre, inverts>>

\* Polyline::iter_segment_indexes().collect()
DoIterSegmentIndexes ==
    Query("iter_segment_indexes", <<>>, IterSegmentIndexes(vertex_data, is_closed))

\* Polyline::iter_segments().collect()
DoIterSegments ==
    Query("iter_segments", <<>>, IterSegments(vertex_data, is_closed))

\* Polyline::visit_segments with a visitor that answers false on its
\* stop_at-th call (0: always true)
DoVisitSegments(stop_at) ==
    Query("visit_segments", stop_at, VisitSegments(vertex_data, is_closed, stop_at))

-----------------------------------------------------------------------------
(* Approximate spatial index.                                               *)

Min(a, b) == IF a < b THEN a ELSE b
Max(a, b) == IF a > b THEN a ELSE b

\* core_math::seg_fast_approx_bounding_box: for a line the box of the two end
\* points; for an arc the box of the end points and of the end points moved
\* by the sagitta vector bulge * (dy, -dx) / 2.  The box is given in doubled
\* units (every coordinate times 2), which keeps the halved sagitta exact.
SegFastApproxBoundingBox(v1, v2) ==
    IF v1.bulge = 0
    THEN [min_x |-> 2 * Min(v1.x, v2.x), min_y |-> 2 * Min(v1.y, v2.y),
          max_x |-> 2 * Max(v1.x, v2.x), max_y |-> 2 * Max(v1.y, v2.y)]
    ELSE LET offs_x == v1.bulge * (v2.y - v1.y)
             offs_y == -v1.bulge * (v2.x - v1.x)
             x1 == 2 * v1.x
             x2 == 2 * v2.x
             y1 == 2 * v1.y
             y2 == 2 * v2.y
         IN  [min_x |-> Min(Min(x1, x2), Min(x1 + offs_x, x2 + offs_x)),
              min_y |-> Min(Min(y1, y2), Min(y1 + offs_y, y2 + offs_y)),
              max_x |-> Max(Max(x1, x2), Max(x1 + offs_x, x2 + offs_x)),
              max_y |-> Max(Max(y1, y2), Max(y1 + offs_y, y2 + offs_y))]

\* The loop `for i in 0..ln - 1` of create_approx_spatial_index from index i on:
\* the boxes handed to builder.add, in order.
RECURSIVE ForwardBoxes(_, _)
ForwardBoxes(vd, i) ==
    IF i >= Len(vd) - 1 THEN <<>>
    ELSE <<SegFastApproxBoundingBox(At(vd, i), At(vd, i + 1))>> \o ForwardBoxes(vd, i + 1)

\* A faulty variant of CreateApproxSpatialIndex, which C9 tells from it: the
\* box of the wraparound segment is added before the forward ones.
CreateApproxSpatialIndexWrapFirst(vd, closed) ==
    LET ln == Len(vd)
    IN  IF ln < 2 THEN [some |-> FALSE, boxes |-> <<>>]
        ELSE [some |-> TRUE,
              boxes |-> IF closed
                        THEN <<SegFastApproxBoundingBox(At(vd, ln - 1), At(vd, 0))>>
                             \o ForwardBoxes(vd, 0)
                        ELSE ForwardBoxes(vd, 0)]

\* Polyline::create_approx_spatial_index.  The index is the sequence of the
\* boxes added to the builder (an item's index is its place in that sequence);
\* build() fails when the number of boxes added is not the count it was
\* created for.  some = FALSE is Option::None.
CreateApproxSpatialIndex(vd, closed) ==
    LET ln == Len(vd)
    IN  IF ln < 2 THEN [some |-> FALSE, boxes |-> <<>>]
        ELSE LET seg_count == IF closed THEN ln ELSE ln - 1
                 forward == ForwardBoxes(vd, 0)
                 added == IF closed
                          THEN Append(forward,
                                      SegFastApproxBoundingBox(At(vd, ln - 1), At(vd, 0)))
                          ELSE forward
             IN  IF Len(added) = seg_count
                 THEN [some |-> TRUE, boxes |-> added]
                 ELSE [some |-> FALSE, boxes |-> <<>>]

DoCreateApproxSpatialIndex ==
    Query("create_approx_spatial_index", <<>>,
          CreateApproxSpatialIndex(vertex_data, is_closed))

-----------------------------------------------------------------------------
(* Segment math the winding number rests on (core_math).                    *)

\* the cross product (p1 - p0) x (point - p0) that is_left tests the sign of
Cross(p0, p1, point) ==
    (p1[1] - p0[1]) * (point[2] - p0[2]) - (point[1] - p0[1]) * (p1[2] - p0[2])

\* core_math::is_left: point strictly left of the directed line p0 -> p1
is_left(p0, p1, point) == Cross(p0, p1, point) > 0

\* core_math::is_left_or_equal
is_left_or_equal(p0, p1, point) == Cross(p0, p1, point) >= 0

\* core_math::seg_arc_radius_and_center for an arc (v1.bulge # 0).  With
\* b = |bulge| and v = v2 - v1:  radius = |v| (b^2 + 1) / (4 b), and the center
\* is the chord's midpoint moved by (1 - b^2) / (4 b) times (-v.y, v.x), the
\* other way for a negative bulge.  Given exactly, scaled by 4 b: scale = 4 b,
\* center = scale * center, radius_sq = scale^2 * radius^2.
seg_arc_radius_and_center(v1, v2) ==
    LET b == Abs(v1.bulge)
        vx == v2.x - v1.x
        vy == v2.y - v1.y
        m == Sgn(v1.bulge) * (1 - b * b)
    IN  [scale |-> 4 * b,
         radius_sq |-> (vx * vx + vy * vy) * (b * b + 1) * (b * b + 1),
         center |-> <<2 * b * (v1.x + v2.x) - m * vy,
                      2 * b * (v1.y + v2.y) + m * vx>>]

\* core_math::dist_squared between the arc's center and point, scaled by scale^2
ScaledDistSquared(arc, point) ==
    LET dx == arc.scale * point[1] - arc.center[1]
        dy == arc.scale * point[2] - arc.center[2]
    IN  dx * dx + dy * dy

-----------------------------------------------------------------------------
(* Winding number.                                                          *)

\* Polyline::process_line_winding
process_line_winding(v1, v2, point) ==
    IF v1.y <= point[2]
    THEN IF v2.y > point[2] /\ is_left(Pos(v1), Pos(v2), point) THEN 1 ELSE 0
    ELSE IF v2.y <= point[2] /\ ~is_left(Pos(v1), Pos(v2), point) THEN -1 ELSE 0

\* the closure dist_to_arc_center_less_than_radius of process_arc_winding
dist_to_arc_center_less_than_radius(v1, v2, point) ==
    LET arc == seg_arc_radius_and_center(v1, v2)
    IN  ScaledDistSquared(arc, point) < arc.radius_sq

\* Polyline::process_arc_winding
process_arc_winding(v1, v2, point) ==
    LET is_ccw == v1.bulge > 0
        point_is_left == IF is_ccw
                         THEN is_left(Pos(v1), Pos(v2), point)
                         ELSE is_left_or_equal(Pos(v1), Pos(v2), point)
        inside == dist_to_arc_center_less_than_radius(v1, v2, point)
    IN  IF v1.y <= point[2]
        THEN IF v2.y > point[2]
             THEN \* upward crossing of arc chord
                  IF is_ccw
                  THEN IF point_is_left THEN 1
                       ELSE IF inside THEN 1 ELSE 0
                  ELSE IF point_is_left
                       THEN IF ~inside THEN 1 ELSE 0
                       ELSE 0
             ELSE \* not crossing arc chord and chord is below
                  IF is_ccw /\ ~point_is_left
                  THEN IF v2.x < point[1] /\ point[1] < v1.x /\ inside THEN 1 ELSE 0
                  ELSE IF ~is_ccw /\ point_is_left
                       THEN IF v1.x < point[1] /\ point[1] < v2.x /\ inside
                            THEN -1 ELSE 0
                       ELSE 0
        ELSE IF v2.y <= point[2]
             THEN \* downward crossing of arc chord
                  IF is_ccw
                  THEN IF ~point_is_left
                       THEN IF inside THEN -1 ELSE 0
                       ELSE 0
                  ELSE IF point_is_left
                       THEN IF inside THEN -1 ELSE 0
                       ELSE -1
             ELSE \* not crossing arc chord and chord is above
                  IF is_ccw /\ ~point_is_left
                  THEN IF v1.x < point[1] /\ point[1] < v2.x /\ inside THEN 1 ELSE 0
                  ELSE IF v2.x < point[1] /\ point[1] < v1.x /\ inside THEN -1 ELSE 0

\* the body of the for loop of winding_number, summed over the segments segs
RECURSIVE SumWinding(_, _)
SumWinding(segs, point) ==
    IF segs = <<>> THEN 0
    ELSE LET v1 == Head(segs)[1]
             v2 == Head(segs)[2]
         IN  (IF v1.bulge = 0
              THEN process_line_winding(v1, v2, point)
              ELSE process_arc_winding(v1, v2, point))
             + SumWinding(Tail(segs), point)

\* A faulty variant of winding_number, which C7 tells from it: the sum is cut
\* down to an inside/outside answer in {-1, 0, 1}.
winding_number_clamped(vd, closed, point) ==
    IF ~closed \/ Len(vd) < 2 THEN 0
    ELSE Sgn(SumWinding(IterSegments(vd, closed), point))

\* A faulty variant of winding_number, which C10 tells from it: an open
\* polyline is not answered with 0 but summed over its segments.
winding_number_open_summed(vd, closed, point) ==
    IF Len(vd) < 2 THEN 0
    ELSE SumWinding(IterSegments(vd, closed), point)

\* Polyline::winding_number
winding_number(vd, closed, point) ==
    IF ~closed \/ Len(vd) < 2 THEN 0
    ELSE SumWinding(IterSegments(vd, closed), point)

DoWindingNumber(point) ==
    Query("winding_number", point, winding_number(vertex_data, is_closed, point))

-----------------------------------------------------------------------------
(* Signed area.  A Real the area computes with is held exactly as           *)
(*   rat + SUM over m of ang[m] * angle_from_bulge(m)                        *)
(* with rat and every ang[m] a fraction <<numerator, denominator>> in lowest *)
(* terms and m the bulge magnitudes: angle_from_bulge(m) = 4 atan(m) stays a *)
(* symbol.  The chord length enters the area only as its square.             *)

RECURSIVE GCD(_, _)
GCD(a, b) == IF b = 0 THEN a ELSE GCD(b, a % b)

Frac(n, d) == IF n = 0 THEN <<0, 1>> ELSE LET g == GCD(Abs(n), d) IN <<n \div g, d \div g>>

FracAdd(p, q) == Frac(p[1] * q[2] + q[1] * p[2], p[2] * q[2])

FracNeg(p) == <<-p[1], p[2]>>

FracScale(p, n, d) == Frac(p[1] * n, p[2] * d)

BulgeMags == {Abs(b) : b \in Bulges} \ {0}

RealZero == [rat |-> <<0, 1>>, ang |-> [m \in BulgeMags |-> <<0, 1>>]]

RealAdd(a, b) ==
    [rat |-> FracAdd(a.rat, b.rat), ang |-> [m \in BulgeMags |-> FracAdd(a.ang[m], b.ang[m])]]

RealNeg(a) == [rat |-> FracNeg(a.rat), ang |-> [m \in BulgeMags |-> FracNeg(a.ang[m])]]

RealHalf(a) ==
    [rat |-> FracScale(a.rat, 1, 2), ang |-> [m \in BulgeMags |-> FracScale(a.ang[m], 1, 2)]]

\* A faulty variant of double_arc_area, which C8 tells from it: the area between
\* arc and chord is added whatever the sign of the bulge.
double_arc_area_unsigned(v1, v2) ==
    LET b == Abs(v1.bulge)
        base_sq == (v2.x - v1.x) * (v2.x - v1.x) + (v2.y - v1.y) * (v2.y - v1.y)
        radius_sq == Frac(base_sq * (b * b + 1) * (b * b + 1), 16 * b * b)
        double_triangle_area == Frac(base_sq * (1 - b * b), 4 * b)
    IN  RealAdd([RealZero EXCEPT !.ang[b] = radius_sq],
                [RealZero EXCEPT !.rat = FracNeg(double_triangle_area)])

\* The arc branch of area's loop body: double_arc_area of the arc from v1 to v2.
\* With b = |bulge| and c = triangle_base:  radius = c (b^2 + 1) / (4 b),
\* sagitta = b c / 2, triangle_height = radius - sagitta,
\* double_sector_area = angle_from_bulge(b) * radius^2,
\* double_triangle_area = c * triangle_height, negated for a negative bulge.
double_arc_area(v1, v2) ==
    LET b == Abs(v1.bulge)
        base_sq == (v2.x - v1.x) * (v2.x - v1.x) + (v2.y - v1.y) * (v2.y - v1.y)
        radius_sq == Frac(base_sq * (b * b + 1) * (b * b + 1), 16 * b * b)
        \* c * (radius - sagitta) = c^2 * ((b^2 + 1) / (4 b) - b / 2)
        double_triangle_area == Frac(base_sq * (1 - b * b), 4 * b)
        double_sector_area == [RealZero EXCEPT !.ang[b] = radius_sq]
        unsigned == RealAdd(double_sector_area,
                            [RealZero EXCEPT !.rat = FracNeg(double_triangle_area)])
    IN  IF v1.bulge < 0 THEN RealNeg(unsigned) ELSE unsigned

\* the for loop of area over the segments segs: double_total_area
RECURSIVE double_total_area(_, _)
double_total_area(segs, acc) ==
    IF segs = <<>> THEN acc
    ELSE LET v1 == Head(segs)[1]
             v2 == Head(segs)[2]
             shoelace == [RealZero EXCEPT !.rat = Frac(v1.x * v2.y - v1.y * v2.x, 1)]
             with_chord == RealAdd(acc, shoelace)
         IN  double_total_area(Tail(segs),
                               IF v1.bulge # 0
                               THEN RealAdd(with_chord, double_arc_area(v1, v2))
                               ELSE with_chord)

\* A faulty variant of area, which C11 tells from it: an open polyline is not
\* answered with 0 but summed over its segments.
area_open_summed(vd, closed) ==
    RealHalf(double_total_area(IterSegments(vd, closed), RealZero))

\* Polyline::area
area(vd, closed) ==
    IF ~closed THEN RealZero
    ELSE RealHalf(double_total_area(IterSegments(vd, closed), RealZero))

DoArea == Query("area", <<>>, area(vertex_data, is_closed))

-----------------------------------------------------------------------------
(* Extents and closest point.  Both are exact on the positions the query     *)
(* specification draws: every chord there has an even whole length, so the   *)
(* center and the radius of every arc of bulge 1 or -1 are whole numbers.    *)

\* the whole square root of n; no value when n is not a square
ExactSqrt(n) == CHOOSE r \in 0..n : r * r = n

\* the center of seg_arc_radius_and_center, unscaled
ArcCenter(v1, v2) ==
    LET arc == seg_arc_radius_and_center(v1, v2)
    IN  <<arc.center[1] \div arc.scale, arc.center[2] \div arc.scale>>

\* the radius of seg_arc_radius_and_center, unscaled
ArcRadius(v1, v2) ==
    LET arc == seg_arc_radius_and_center(v1, v2)
    IN  ExactSqrt(arc.radius_sq) \div arc.scale

\* core_math::arc_seg_bounding_box: the box of the arc from v1 to v2, which is
\* the box of its end points widened to center +- radius along each axis
\* direction the arc passes through.  The arc passes through the direction u
\* when center + radius * u is not strictly on the chord's other side.
arc_seg_bounding_box(v1, v2) ==
    LET c == ArcCenter(v1, v2)
        r == ArcRadius(v1, v2)
        chord == <<v2.x - v1.x, v2.y - v1.y>>
        passes(u) == Sgn(v1.bulge) * (chord[1] * u[2] - chord[2] * u[1]) < 0
    IN  [min_x |-> IF passes(<<-1, 0>>) THEN c[1] - r ELSE Min(v1.x, v2.x),
         min_y |-> IF passes(<<0, -1>>) THEN c[2] - r ELSE Min(v1.y, v2.y),
         max_x |-> IF passes(<<1, 0>>) THEN c[1] + r ELSE Max(v1.x, v2.x),
         max_y |-> IF passes(<<0, 1>>) THEN c[2] + r ELSE Max(v1.y, v2.y)]

\* A faulty variant of ExtentsLoop, which C14 tells from it: a line segment
\* widens the box by its start point, not by its end point.
RECURSIVE ExtentsLoopByStart(_, _)
ExtentsLoopByStart(segs, result) ==
    IF segs = <<>> THEN result
    ELSE LET v1 == Head(segs)[1]
             v2 == Head(segs)[2]
             arc_extents == arc_seg_bounding_box(v1, v2)
         IN  ExtentsLoopByStart(Tail(segs),
                 IF v1.bulge = 0
                 THEN [min_x |-> Min(result.min_x, v1.x), min_y |-> Min(result.min_y, v1.y),
                       max_x |-> Max(result.max_x, v1.x), max_y |-> Max(result.max_y, v1.y)]
                 ELSE [min_x |-> Min(result.min_x, arc_extents.min_x),
                       min_y |-> Min(result.min_y, arc_extents.min_y),
                       max_x |-> Max(result.max_x, arc_extents.max_x),
                       max_y |-> Max(result.max_y, arc_extents.max_y)])

\* the for loop of extents over the segments segs, from the box result
RECURSIVE ExtentsLoop(_, _)
ExtentsLoop(segs, result) ==
    IF segs = <<>> THEN result
    ELSE LET v1 == Head(segs)[1]
             v2 == Head(segs)[2]
             arc_extents == arc_seg_bounding_box(v1, v2)
         IN  ExtentsLoop(Tail(segs),
                 IF v1.bulge = 0
                 THEN \* line segment, just look at end of line point
                      [min_x |-> IF v2.x < result.min_x THEN v2.x ELSE result.min_x,
                       max_x |-> IF v2.x < result.min_x THEN result.max_x
                                 ELSE IF v2.x > result.max_x THEN v2.x ELSE result.max_x,
                       min_y |-> IF v2.y < result.min_y THEN v2.y ELSE result.min_y,
                       max_y |-> IF v2.y < result.min_y THEN result.max_y
                                 ELSE IF v2.y > result.max_y THEN v2.y ELSE result.max_y]
                 ELSE [min_x |-> Min(result.min_x, arc_extents.min_x),
                       min_y |-> Min(result.min_y, arc_extents.min_y),
                       max_x |-> Max(result.max_x, arc_extents.max_x),
                       max_y |-> Max(result.max_y, arc_extents.max_y)])

NoBox == [min_x |-> 0, min_y |-> 0, max_x |-> 0, max_y |-> 0]

\* Polyline::extents; some = FALSE is Option::None
extents(vd, closed) ==
    IF Len(vd) = 0 THEN [some |-> FALSE, box |-> NoBox]
    ELSE [some |-> TRUE,
          box |-> ExtentsLoop(IterSegments(vd, closed),
                              [min_x |-> At(vd, 0).x, min_y |-> At(vd, 0).y,
                               max_x |-> At(vd, 0).x, max_y |-> At(vd, 0).y])]

DoExtents == Query("extents", <<>>, extents(vertex_data, is_closed))

FracMul(p, q) == Frac(p[1] * q[1], p[2] * q[2])

FracLess(p, q) == p[1] * q[2] < q[1] * p[2]

\* a point of whole coordinates as a point of fractions
FracPoint(point) == <<Frac(point[1], 1), Frac(point[2], 1)>>

\* Vector2::length_squared of point - cp, point whole and cp of fractions
FracDistSquared(point, cp) ==
    LET dx == FracAdd(Frac(point[1], 1), FracNeg(cp[1]))
        dy == FracAdd(Frac(point[2], 1), FracNeg(cp[2]))
    IN  FracAdd(FracMul(dx, dx), FracMul(dy, dy))

\* core_math::line_seg_closest_point: the point of the line segment from p0 to
\* p1 closest to point
line_seg_closest_point(p0, p1, point) ==
    LET v == <<p1[1] - p0[1], p1[2] - p0[2]>>
        w == <<point[1] - p0[1], point[2] - p0[2]>>
        c1 == w[1] * v[1] + w[2] * v[2]
        c2 == v[1] * v[1] + v[2] * v[2]
    IN  IF c1 <= 0 THEN FracPoint(p0)
        ELSE IF c2 <= c1 THEN FracPoint(p1)
        ELSE <<Frac(p0[1] * c2 + v[1] * c1, c2), Frac(p0[2] * c2 + v[2] * c1, c2)>>

\* core_math::point_within_arc_sweep for an arc of at most half a circle
point_within_arc_sweep(center, arc_start, arc_end, is_clockwise, point) ==
    IF is_clockwise
    THEN Cross(center, arc_start, point) <= 0 /\ Cross(center, arc_end, point) >= 0
    ELSE Cross(center, arc_start, point) >= 0 /\ Cross(center, arc_end, point) <= 0

\* core_math::seg_closest_point: the point of the segment from v1 to v2 closest
\* to point.  On an arc it is the point of the circle towards point when point
\* is within the arc's sweep, else the nearer end point; v1 when point is the
\* center.
seg_closest_point(v1, v2, point) ==
    IF v1.bulge = 0 THEN line_seg_closest_point(Pos(v1), Pos(v2), point)
    ELSE LET c == ArcCenter(v1, v2)
             r == ArcRadius(v1, v2)
             to_point == <<point[1] - c[1], point[2] - c[2]>>
             len == ExactSqrt(to_point[1] * to_point[1] + to_point[2] * to_point[2])
             dist1 == (Pos(v1)[1] - point[1]) * (Pos(v1)[1] - point[1])
                      + (Pos(v1)[2] - point[2]) * (Pos(v1)[2] - point[2])
             dist2 == (Pos(v2)[1] - point[1]) * (Pos(v2)[1] - point[1])
                      + (Pos(v2)[2] - point[2]) * (Pos(v2)[2] - point[2])
         IN  IF point = c THEN FracPoint(Pos(v1))
             ELSE IF point_within_arc_sweep(c, Pos(v1), Pos(v2), v1.bulge < 0, point)
                  THEN \* center + radius * normalize(to_point); the center when
                       \* the radius is 0
                       IF r = 0 THEN FracPoint(c)
                       ELSE <<Frac(c[1] * len + to_point[1] * r, len),
                              Frac(c[2] * len + to_point[2] * r, len)>>
                  ELSE IF dist1 < dist2 THEN FracPoint(Pos(v1)) ELSE FracPoint(Pos(v2))

\* A faulty variant of ClosestPointLoop, which C12 tells from it: a later
\* segment at the same distance replaces an earlier one.
RECURSIVE ClosestPointLoopLastWins(_, _, _, _)
ClosestPointLoopLastWins(vd, indexes, point, acc) ==
    IF indexes = <<>> THEN acc
    ELSE LET i == Head(indexes)[1]
             j == Head(indexes)[2]
             cp == seg_closest_point(At(vd, i), At(vd, j), point)
             dist2 == FracDistSquared(point, cp)
         IN  ClosestPointLoopLastWins(vd, Tail(indexes), point,
                 IF acc.is_max \/ ~FracLess(acc.dist_squared, dist2)
                 THEN [seg_start_index |-> i, seg_point |-> cp,
                       is_max |-> FALSE, dist_squared |-> dist2]
                 ELSE acc)

\* The for loop of closest_point over the index pairs indexes.  acc holds
\* result.seg_start_index, result.seg_point and dist_squared; is_max says that
\* dist_squared is still Real::max_value(), which every distance is below.
RECURSIVE ClosestPointLoop(_, _, _, _)
ClosestPointLoop(vd, indexes, point, acc) ==
    IF indexes = <<>> THEN acc
    ELSE LET i == Head(indexes)[1]
             j == Head(indexes)[2]
             cp == seg_closest_point(At(vd, i), At(vd, j), point)
             dist2 == FracDistSquared(point, cp)
         IN  ClosestPointLoop(vd, Tail(indexes), point,
                 IF acc.is_max \/ FracLess(dist2, acc.dist_squared)
                 THEN [seg_start_index |-> i, seg_point |-> cp,
                       is_max |-> FALSE, dist_squared |-> dist2]
                 ELSE acc)

\* A faulty variant of closest_point, which C13 tells from it: a single vertex
\* is answered with the distance the result was created with.
closest_point_single_unmeasured(vd, closed, point) ==
    IF Len(vd) = 0
    THEN [some |-> FALSE, seg_start_index |-> 0, seg_point |-> FracPoint(<<0, 0>>),
          distance_is_max |-> FALSE, distance_squared |-> <<0, 1>>]
    ELSE LET acc == ClosestPointLoop(vd, IterSegmentIndexes(vd, closed), point,
                        [seg_start_index |-> 0, seg_point |-> FracPoint(Pos(At(vd, 0))),
                         is_max |-> TRUE, dist_squared |-> <<0, 1>>])
         IN  [some |-> TRUE, seg_start_index |-> acc.seg_start_index,
              seg_point |-> acc.seg_point,
              distance_is_max |-> acc.is_max, distance_squared |-> acc.dist_squared]

\* Polyline::closest_point.  some = FALSE is Option::None; the distance is
\* given by its square (distance_is_max: it is Real::max_value()).
closest_point(vd, closed, point) ==
    IF Len(vd) = 0
    THEN [some |-> FALSE, seg_start_index |-> 0, seg_point |-> FracPoint(<<0, 0>>),
          distance_is_max |-> FALSE, distance_squared |-> <<0, 1>>]
    ELSE IF Len(vd) = 1
    THEN [some |-> TRUE, seg_start_index |-> 0, seg_point |-> FracPoint(Pos(At(vd, 0))),
          distance_is_max |-> FALSE,
          distance_squared |-> FracDistSquared(point, FracPoint(Pos(At(vd, 0))))]
    ELSE LET acc == ClosestPointLoop(vd, IterSegmentIndexes(vd, closed), point,
                        [seg_start_index |-> 0, seg_point |-> FracPoint(Pos(At(vd, 0))),
                         is_max |-> TRUE, dist_squared |-> <<0, 1>>])
         IN  [some |-> TRUE, seg_start_index |-> acc.seg_start_index,
              seg_point |-> acc.seg_point,
              distance_is_max |-> acc.is_max, distance_squared |-> acc.dist_squared]

DoClosestPoint(point) ==
    Query("closest_point", point, closest_point(vertex_data, is_closed, point))

-----------------------------------------------------------------------------
(* Arc linearization and fuzzy comparison.                                  *)

\* FuzzyOrd::fuzzy_lt on T: a < b + fuzzy_epsilon, which on whole numbers is
\* a <= b
fuzzy_lt(a, b) == a <= b

\* seg_count.to_usize() in arcs_to_approx_lines for an arc of bulge 1 or -1
\* (angle_diff = pi) of radius arc_radius > 0:
\*   seg_count = ceil(pi / (2 acos(1 - abs_error / arc_radius))).
\* 0 stands for None: abs_error = 0 divides by zero and abs_error > 2 radius
\* takes acos outside [-1, 1], neither a value to_usize converts.  The count is
\* 1 when 1 - abs_error / radius <= 0 = cos(pi / 2) and 2 when it is
\* <= cos(pi / 4), that is 2 (radius - abs_error)^2 <= radius^2; the error
\* distances drawn ask for no more.
SegCountToUsize(arc_radius, abs_error) ==
    CASE abs_error = 0 \/ abs_error > 2 * arc_radius -> 0
      [] abs_error > 0 /\ abs_error <= 2 * arc_radius /\ abs_error >= arc_radius -> 1
      [] /\ abs_error > 0
         /\ abs_error < arc_radius
         /\ 2 * (arc_radius - abs_error) * (arc_radius - abs_error)
                <= arc_radius * arc_radius -> 2

\* The body of the for loop of arcs_to_approx_lines for one segment: the
\* vertexes it adds, or failed when a `?` returns None.  With two equal parts
\* the one point added is the arc's middle, a quarter turn from v1 about the
\* center.
ApproxSegment(v1, v2, error_distance) ==
    IF v1.bulge = 0 THEN [failed |-> FALSE, added |-> <<v1>>]
    ELSE LET arc_radius == ArcRadius(v1, v2)
             arc_center == ArcCenter(v1, v2)
             start == <<v1.x - arc_center[1], v1.y - arc_center[2]>>
             middle == IF v1.bulge < 0
                       THEN <<arc_center[1] + start[2], arc_center[2] - start[1]>>
                       ELSE <<arc_center[1] - start[2], arc_center[2] + start[1]>>
             usize_count == IF arc_radius = 0 THEN 0
                            ELSE SegCountToUsize(arc_radius, Abs(error_distance))
         IN  IF fuzzy_lt(arc_radius, error_distance)
             THEN [failed |-> FALSE, added |-> <<PlineVertex(v1.x, v1.y, 0)>>]
             ELSE IF usize_count = 0 THEN [failed |-> TRUE, added |-> <<>>]
             ELSE IF usize_count = 1
                  THEN [failed |-> FALSE, added |-> <<PlineVertex(v1.x, v1.y, 0)>>]
                  ELSE [failed |-> FALSE,
                        added |-> <<PlineVertex(v1.x, v1.y, 0),
                                    PlineVertex(middle[1], middle[2], 0)>>]

\* the for loop of arcs_to_approx_lines over the segments segs
RECURSIVE ApproxLoop(_, _, _)
ApproxLoop(segs, error_distance, result) ==
    IF segs = <<>> THEN [failed |-> FALSE, vertex_data |-> result]
    ELSE LET r == ApproxSegment(Head(segs)[1], Head(segs)[2], error_distance)
         IN  IF r.failed THEN [failed |-> TRUE, vertex_data |-> <<>>]
             ELSE ApproxLoop(Tail(segs), error_distance, result \o r.added)

\* A faulty variant of arcs_to_approx_lines, which C17 tells from it: the last
\* vertex of an open polyline is added as the start of a line, its bulge 0.
arcs_to_approx_lines_last_flat(vd, closed, error_distance) ==
    IF Len(vd) = 0 THEN [some |-> TRUE, vertex_data |-> <<>>, is_closed |-> closed]
    ELSE LET r == ApproxLoop(IterSegments(vd, closed), error_distance, <<>>)
             last == At(vd, Len(vd) - 1)
         IN  IF r.failed THEN [some |-> FALSE, vertex_data |-> <<>>, is_closed |-> closed]
             ELSE [some |-> TRUE,
                   vertex_data |-> IF ~closed
                                   THEN Append(r.vertex_data, PlineVertex(last.x, last.y, 0))
                                   ELSE r.vertex_data,
                   is_closed |-> closed]

\* Polyline::arcs_to_approx_lines; some = FALSE is Option::None
arcs_to_approx_lines(vd, closed, error_distance) ==
    IF Len(vd) = 0 THEN [some |-> TRUE, vertex_data |-> <<>>, is_closed |-> closed]
    ELSE LET r == ApproxLoop(IterSegments(vd, closed), error_distance, <<>>)
         IN  IF r.failed THEN [some |-> FALSE, vertex_data |-> <<>>, is_closed |-> closed]
             ELSE [some |-> TRUE,
                   vertex_data |-> IF ~closed
                                   THEN Append(r.vertex_data, At(vd, Len(vd) - 1))
                                   ELSE r.vertex_data,
                   is_closed |-> closed]

DoArcsToApproxLines(error_distance) ==
    Query("arcs_to_approx_lines", error_distance,
          arcs_to_approx_lines(vertex_data, is_closed, error_distance))

\* PlineVertex::fuzzy_eq_eps: x, y and bulge each fuzzy equal
PlineVertex_fuzzy_eq_eps(v1, v2, fuzzy_epsilon) ==
    /\ fuzzy_eq_eps(v1.x, v2.x, fuzzy_epsilon)
    /\ fuzzy_eq_eps(v1.y, v2.y, fuzzy_epsilon)
    /\ fuzzy_eq_eps(v1.bulge, v2.bulge, fuzzy_epsilon)

\* Polyline::fuzzy_eq_eps: all over the zip of the two vertex sequences, which
\* ends with the shorter one
Polyline_fuzzy_eq_eps(vd, other_vd, fuzzy_epsilon) ==
    \A i \in 1..Min(Len(vd), Len(other_vd)) :
        PlineVertex_fuzzy_eq_eps(vd[i], other_vd[i], fuzzy_epsilon)

DoFuzzyEqEps(other_vd, fuzzy_epsilon) ==
    Query("fuzzy_eq_eps", <<other_vd, fuzzy_epsilon>>,
          Polyline_fuzzy_eq_eps(vertex_data, other_vd, fuzzy_epsilon))

Next ==
    \/ \E p \in Positions, b \in Bulges : Add(p[1], p[2], b)
    \/ \E b \in BOOLEAN : SetIsClosed(b)
    \/ Clear
    \/ RemoveLast
    \/ InvertDirection
    \/ DoIterSegmentIndexes
    \/ DoIterSegments
    \/ \E k \in 0..MaxLen : DoVisitSegments(k)
    \/ DoCreateApproxSpatialIndex

Spec == Init /\ [][Next]_vars

\* The specification of the editing operations: a polyline built and edited by
\* add_or_replace, remove, set_vertex and remove_last.
EditBulges == {0, 1}

NextEdit ==
    \/ \E p \in Positions, b \in EditBulges, eps \in Epsilons :
          AddOrReplace(p[1], p[2], b, eps)
    \/ \E index \in 0..MaxLen : Remove(index)
    \/ \E index \in 0..MaxLen, v \in SetValues : SetVertex(index, v[1], v[2], v[3])
    \/ RemoveLast

SpecEdit == Init /\ [][NextEdit]_vars

-----------------------------------------------------------------------------
(* The geometric specification: a polyline drawn from the bounded set, then *)
(* queried, inverted and queried again.                                     *)

GeomVertexes == {PlineVertex(p[1], p[2], b) : p \in GeomPositions, b \in Bulges}

PolylinesUpTo(n) == UNION {[1..k -> GeomVertexes] : k \in 0..n}

InitGeom ==
    /\ vertex_data \in PolylinesUpTo(MaxGeomLen)
    /\ is_closed \in BOOLEAN
    /\ pre = NoPre
    /\ inverts = 0
    /\ ret = None

NextGeom ==
    \/ inverts = 0 /\ InvertDirection
    \/ \E point \in Points : DoWindingNumber(point)
    \/ DoArea

SpecGeom == InitGeom /\ [][NextGeom]_vars

-----------------------------------------------------------------------------
(* The loop specification: a closed loop, extended by the vertexes of a      *)
(* second loop that starts where the first one does, then queried.          *)

\* Polyline::extend_vertexes
ExtendVertexes(other) ==
    /\ vertex_data' = vertex_data \o other.vertex_data
    /\ pre' = Snapshot
    /\ inverts' = 0
    /\ ret' = None
    /\ UNCHANGED is_closed

LoopPositions == {<<0, 0>>, <<2, 0>>, <<4, 0>>}
LoopPoints == {<<1, 0>>, <<-1, 0>>, <<3, 0>>, <<2, 1>>, <<1, -1>>}

LoopVertexes == {PlineVertex(p[1], p[2], b) : p \in LoopPositions, b \in Bulges}

Loops == UNION {[1..k -> LoopVertexes] : k \in 2..MaxLoopLen}

\* the loops appended to a first one: two vertexes each
SecondLoops == [1..2 -> LoopVertexes]

InitLoops ==
    /\ vertex_data \in Loops
    /\ is_closed = TRUE
    /\ pre = NoPre
    /\ inverts = 0
    /\ ret = None

NextLoops ==
    \/ \E o \in SecondLoops :
          /\ pre = NoPre
          /\ Pos(o[1]) = Pos(vertex_data[1])
          /\ ExtendVertexes([vertex_data |-> o, is_closed |-> TRUE])
    \/ \E point \in LoopPoints : DoWindingNumber(point)

SpecLoops == InitLoops /\ [][NextLoops]_vars

-----------------------------------------------------------------------------
(* The query specification: a polyline drawn from the bounded set and        *)
(* queried.  The positions are the corners of a triangle of sides 6, 8, 10.  *)

QueryPositions == {<<0, 0>>, <<6, 0>>, <<0, 8>>}

\* the corners, the middles of the sides and two points at whole distances of
\* the middles
QueryPoints == {<<0, 0>>, <<3, 0>>, <<0, 4>>, <<3, 4>>, <<3, 8>>, <<6, 4>>}

ErrorDistances == {-12, -6, 0, 2, 9}

QueryVertexes == {PlineVertex(p[1], p[2], b) : p \in QueryPositions, b \in Bulges}

\* the polylines compared with by fuzzy_eq_eps
Others ==
    {<<>>,
     <<PlineVertex(0, 0, 0)>>,
     <<PlineVertex(0, 0, 0), PlineVertex(6, 0, 1)>>,
     <<PlineVertex(0, 0, 1), PlineVertex(6, 0, 1), PlineVertex(0, 8, 0)>>}

InitQuery ==
    /\ vertex_data \in UNION {[1..k -> QueryVertexes] : k \in 0..MaxQueryLen}
    /\ is_closed \in BOOLEAN
    /\ pre = NoPre
    /\ inverts = 0
    /\ ret = None

\* one query of the polyline drawn
NextQuery ==
    \/ ret = None /\ DoExtents
    \/ \E point \in QueryPoints : ret = None /\ DoClosestPoint(point)
    \/ \E error_distance \in ErrorDistances :
          ret = None /\ DoArcsToApproxLines(error_distance)
    \/ \E other \in Others, eps \in Epsilons : ret = None /\ DoFuzzyEqEps(other, eps)

SpecQuery == InitQuery /\ [][NextQuery]_vars

-----------------------------------------------------------------------------
(* Notions the claims are stated with.                                      *)

\* the forward pairs (0,1), ..., (n-2,n-1)
ForwardPairs(n) == [k \in 1..(n - 1) |-> <<k - 1, k>>]

\* the segment index pairs section 4.1 of the specification asks for
ExpectedSegIndexes(n, closed) ==
    IF n < 2 THEN <<>>
    ELSE IF closed THEN << <<n - 1, 0>> >> \o ForwardPairs(n)
    ELSE ForwardPairs(n)

\* the vertex pairs at the index pairs of iter_segment_indexes
PairsAtIndexes(vd, closed) ==
    LET idx == IterSegmentIndexes(vd, closed)
    IN  [k \in 1..Len(idx) |-> <<At(vd, idx[k][1]), At(vd, idx[k][2])>>]

\* point lies on the segment from v1 to v2 (a line, or the arc of v1.bulge)
PointOnSegment(v1, v2, point) ==
    IF Pos(v1) = Pos(v2) THEN point = Pos(v1)
    ELSE IF v1.bulge = 0
         THEN /\ Cross(Pos(v1), Pos(v2), point) = 0
              /\ Min(v1.x, v2.x) <= point[1] /\ point[1] <= Max(v1.x, v2.x)
              /\ Min(v1.y, v2.y) <= point[2] /\ point[2] <= Max(v1.y, v2.y)
         ELSE LET arc == seg_arc_radius_and_center(v1, v2)
              IN  /\ ScaledDistSquared(arc, point) = arc.radius_sq
                  \* a counter clockwise arc runs on the right of its chord
                  /\ Sgn(v1.bulge) * Cross(Pos(v1), Pos(v2), point) <= 0

PointOnPolyline(vd, closed, point) ==
    LET segs == IterSegments(vd, closed)
    IN  \E k \in 1..Len(segs) : PointOnSegment(segs[k][1], segs[k][2], point)

-----------------------------------------------------------------------------
(* Claims on the container specification Spec.                              *)

\* C1: iter_segment_indexes yields nothing when n < 2; when open and n >= 2 the
\* n-1 pairs (0,1), ..., (n-2,n-1) in that order; when closed and n >= 2 exactly
\* n pairs, the wraparound pair (n-1,0) first and then the forward pairs.
C1_SegmentIndexes ==
    ret.op = "iter_segment_indexes"
        => ret.val = ExpectedSegIndexes(Len(vertex_data), is_closed)

C1_Witness ==
    /\ ret.op = "iter_segment_indexes"
    /\ is_closed
    /\ Len(vertex_data) = 3
    /\ ret.val = << <<2, 0>>, <<0, 1>>, <<1, 2>> >>

\* C2: the pairs of iter_segments, the pairs handed to a visit_segments visitor
\* that always answers true, and the vertex pairs at the index pairs of
\* iter_segment_indexes are the same sequence.
C2_TraversalsAgree ==
    /\ ret.op = "iter_segments"
           => /\ ret.val = VisitSegments(vertex_data, is_closed, 0)
              /\ ret.val = PairsAtIndexes(vertex_data, is_closed)
    /\ (ret.op = "visit_segments" /\ ret.arg = 0)
           => /\ ret.val = IterSegments(vertex_data, is_closed)
              /\ ret.val = PairsAtIndexes(vertex_data, is_closed)

C2_Witness ==
    /\ ret.op = "visit_segments"
    /\ ret.arg = 0
    /\ is_closed
    /\ Len(vertex_data) = 3
    /\ Len(ret.val) = 3
    /\ ret.val[1] = <<At(vertex_data, 2), At(vertex_data, 0)>>
    /\ Cardinality({vertex_data[i] : i \in 1..3}) = 3

\* C3: calling invert_direction twice restores the original vertex sequence
\* exactly, every position and every bulge, the last vertex's included.
C3_InvertTwiceRestores ==
    inverts = 2 => vertex_data = pre.vertex_data

\* an open polyline whose last bulge two calls of invert_direction negate
C3_Witness ==
    /\ inverts = 2
    /\ ~is_closed
    /\ pre.vertex_data = <<PlineVertex(0, 0, 1), PlineVertex(2, 0, 1)>>
    /\ vertex_data = <<PlineVertex(0, 0, 1), PlineVertex(2, 0, -1)>>

\* C4: invert_direction on n >= 2 vertexes leaves n and is_closed unchanged,
\* new position[i] = old position[n-1-i], new bulge[i] = -(old bulge[n-2-i])
\* for i <= n-2 and, when closed, new bulge[n-1] = -(old bulge[n-1]); every
\* segment of the result is a segment of the original with its end points
\* swapped and its bulge negated; for n < 2 nothing changes.
C4_InvertDirection ==
    inverts = 1 =>
        LET old == pre.vertex_data
            n == Len(old)
            new_segs == IterSegments(vertex_data, is_closed)
            old_segs == IterSegments(old, pre.is_closed)
        IN  /\ Len(vertex_data) = n
            /\ is_closed = pre.is_closed
            /\ n < 2 => vertex_data = old
            /\ n >= 2 =>
                /\ \A i \in 0..(n - 1) : Pos(At(vertex_data, i)) = Pos(At(old, n - 1 - i))
                /\ \A i \in 0..(n - 2) : At(vertex_data, i).bulge = -At(old, n - 2 - i).bulge
                /\ is_closed => At(vertex_data, n - 1).bulge = -At(old, n - 1).bulge
            /\ Len(new_segs) = Len(old_segs)
            /\ \A k \in 1..Len(new_segs) : \E j \in 1..Len(old_segs) :
                   /\ Pos(new_segs[k][1]) = Pos(old_segs[j][2])
                   /\ Pos(new_segs[k][2]) = Pos(old_segs[j][1])
                   /\ new_segs[k][1].bulge = -old_segs[j][1].bulge

C4_Witness ==
    /\ inverts = 1
    /\ is_closed
    /\ Len(vertex_data) = 3
    /\ Cardinality({Pos(vertex_data[i]) : i \in 1..3}) = 3
    /\ pre.vertex_data[3].bulge = 1
    /\ vertex_data[3].bulge = -1
    /\ pre.vertex_data[1].bulge = -1
    /\ pre.vertex_data[2].bulge = 0

\* the box of the k-th segment (k from 1) in the order of iter_segment_indexes
BoxInTraversalOrder(vd, closed, k) ==
    LET pair == IterSegmentIndexes(vd, closed)[k]
    IN  SegFastApproxBoundingBox(At(vd, pair[1]), At(vd, pair[2]))

SegCount(vd, closed) ==
    IF Len(vd) < 2 THEN 0 ELSE IF closed THEN Len(vd) ELSE Len(vd) - 1

\* C9 as claimed: with fewer than 2 vertexes there is no index; otherwise the
\* index has one entry per segment and entry k is the box of the k-th segment
\* in the order of iter_segment_indexes (closed: entry 0 is the wraparound one).
C9_IndexInTraversalOrder ==
    ret.op = "create_approx_spatial_index" =>
        IF Len(vertex_data) < 2 THEN ~ret.val.some
        ELSE /\ ret.val.some
             /\ Len(ret.val.boxes) = SegCount(vertex_data, is_closed)
             /\ \A k \in 1..Len(ret.val.boxes) :
                    ret.val.boxes[k] = BoxInTraversalOrder(vertex_data, is_closed, k)

\* C9 amended: with fewer than 2 vertexes there is no index; otherwise the index
\* has one entry per segment and entry k is the box of the segment that starts
\* at vertex k, (k, k+1) for k < n-1 and, when closed, the wraparound segment
\* (n-1, 0) as the last entry n-1.
C9_IndexByStartVertex ==
    ret.op = "create_approx_spatial_index" =>
        LET n == Len(vertex_data)
        IN  IF n < 2 THEN ~ret.val.some
            ELSE /\ ret.val.some
                 /\ Len(ret.val.boxes) = SegCount(vertex_data, is_closed)
                 /\ \A k \in 0..(Len(ret.val.boxes) - 1) :
                        ret.val.boxes[k + 1] =
                            SegFastApproxBoundingBox(At(vertex_data, k),
                                                     At(vertex_data, (k + 1) % n))

C9_Witness ==
    /\ ret.op = "create_approx_spatial_index"
    /\ is_closed
    /\ Len(vertex_data) = 3
    /\ ret.val.some
    /\ Len(ret.val.boxes) = 3
    /\ ret.val.boxes[3] = SegFastApproxBoundingBox(At(vertex_data, 2), At(vertex_data, 0))
    /\ ret.val.boxes[1] # SegFastApproxBoundingBox(At(vertex_data, 2), At(vertex_data, 0))

-----------------------------------------------------------------------------
(* Claims on the geometric specifications SpecGeom and SpecLoops.           *)

\* C5: for a closed polyline and a point on none of its segments, the winding
\* number after invert_direction is the negation of the one before.
C5_InvertNegatesWinding ==
    (/\ ret.op = "winding_number"
     /\ inverts = 1
     /\ is_closed
     /\ ~PointOnPolyline(pre.vertex_data, TRUE, ret.arg))
        => ret.val = -winding_number(pre.vertex_data, TRUE, ret.arg)

\* the counter clockwise half disc over the chord from (0, 0) to (4, 0) and the
\* point (2, -1) below it: -1 before invert_direction, 0 after it
C5_Witness ==
    /\ ret.op = "winding_number"
    /\ inverts = 1
    /\ is_closed
    /\ pre.vertex_data = <<PlineVertex(4, 0, 1), PlineVertex(0, 0, 0)>>
    /\ ret.arg = <<2, -1>>
    /\ ~PointOnPolyline(pre.vertex_data, TRUE, ret.arg)
    /\ winding_number(pre.vertex_data, TRUE, ret.arg) = -1
    /\ ret.val = 0

\* Two families of closed paths that cannot intersect themselves, with the
\* region each encloses.  A cap is two vertexes at different places joined by
\* one arc and one line; it encloses the points of the arc's disc strictly on
\* the arc's side of the chord and runs the way its arc does.
IsCap(vd) ==
    /\ Len(vd) = 2
    /\ Pos(vd[1]) # Pos(vd[2])
    /\ (vd[1].bulge = 0) # (vd[2].bulge = 0)

CapWinding(vd, point) ==
    LET a == IF vd[1].bulge # 0 THEN vd[1] ELSE vd[2]
        b == IF vd[1].bulge # 0 THEN vd[2] ELSE vd[1]
        arc == seg_arc_radius_and_center(a, b)
    IN  IF /\ Sgn(a.bulge) * Cross(Pos(a), Pos(b), point) < 0
           /\ ScaledDistSquared(arc, point) < arc.radius_sq
        THEN Sgn(a.bulge)
        ELSE 0

\* A triangle is three vertexes not on one line joined by lines.
IsTriangle(vd) ==
    /\ Len(vd) = 3
    /\ \A i \in 1..3 : vd[i].bulge = 0
    /\ Cross(Pos(vd[1]), Pos(vd[2]), Pos(vd[3])) # 0

TriangleWinding(vd, point) ==
    LET o == Sgn(Cross(Pos(vd[1]), Pos(vd[2]), Pos(vd[3])))
    IN  IF /\ Sgn(Cross(Pos(vd[1]), Pos(vd[2]), point)) = o
           /\ Sgn(Cross(Pos(vd[2]), Pos(vd[3]), point)) = o
           /\ Sgn(Cross(Pos(vd[3]), Pos(vd[1]), point)) = o
        THEN o
        ELSE 0

\* C6: for a closed polyline without self intersections and a point on none of
\* its segments, winding_number is 1 when the point is enclosed and the path
\* counter clockwise, -1 when enclosed and clockwise, 0 when outside.  Stated
\* for the caps and the triangles.
C6_SimplePathWinding ==
    (/\ ret.op = "winding_number"
     /\ is_closed
     /\ ~PointOnPolyline(vertex_data, TRUE, ret.arg))
        => /\ IsCap(vertex_data) => ret.val = CapWinding(vertex_data, ret.arg)
           /\ IsTriangle(vertex_data) => ret.val = TriangleWinding(vertex_data, ret.arg)

\* the same half disc: the point (2, -1) outside it is answered with -1
C6_Witness ==
    /\ ret.op = "winding_number"
    /\ inverts = 0
    /\ is_closed
    /\ vertex_data = <<PlineVertex(4, 0, 1), PlineVertex(0, 0, 0)>>
    /\ IsCap(vertex_data)
    /\ ret.arg = <<2, -1>>
    /\ ~PointOnPolyline(vertex_data, TRUE, ret.arg)
    /\ CapWinding(vertex_data, ret.arg) = 0
    /\ ret.val = -1

\* the vertexes extend_vertexes appended
Appended == SubSeq(vertex_data, Len(pre.vertex_data) + 1, Len(vertex_data))

\* C7: for closed polylines A and B of at least 2 vertexes each that start at
\* the same position, the closed polyline of A's vertexes followed by B's has,
\* at every point on none of its segments, the winding number of A plus that
\* of B.
C7_WindingAdditive ==
    (/\ ret.op = "winding_number"
     /\ inverts = 0
     /\ is_closed
     /\ Len(pre.vertex_data) >= 2
     /\ Len(Appended) >= 2
     /\ Pos(pre.vertex_data[1]) = Pos(Appended[1])
     /\ ~PointOnPolyline(vertex_data, TRUE, ret.arg))
        => ret.val = winding_number(pre.vertex_data, TRUE, ret.arg)
                     + winding_number(Appended, TRUE, ret.arg)

\* the two overlapping counter clockwise loops of the documentation wind
\* twice around (1, 0)
C7_Witness ==
    /\ ret.op = "winding_number"
    /\ inverts = 0
    /\ is_closed
    /\ pre.vertex_data = <<PlineVertex(0, 0, 1), PlineVertex(2, 0, 1)>>
    /\ Appended = <<PlineVertex(0, 0, 1), PlineVertex(4, 0, 1)>>
    /\ ret.arg = <<1, 0>>
    /\ ~PointOnPolyline(vertex_data, TRUE, ret.arg)
    /\ ret.val = 2

\* C10: winding_number returns 0 for every open polyline and for every
\* polyline with fewer than 2 vertexes, whatever the point and the vertexes.
C10_OpenWindingIsZero ==
    (ret.op = "winding_number" /\ (~is_closed \/ Len(vertex_data) < 2))
        => ret.val = 0

\* an open polyline whose segments, were it closed, would wind around the point
C10_Witness ==
    /\ ret.op = "winding_number"
    /\ ~is_closed
    /\ Len(vertex_data) >= 2
    /\ winding_number(vertex_data, TRUE, ret.arg) # 0
    /\ SumWinding(IterSegments(vertex_data, FALSE), ret.arg) # 0
    /\ ret.val = 0

\* Rational bounds, in thousandths, of angle_from_bulge(m) = 4 atan(m)
AngleBounds(m) ==
    CASE m = 1 -> <<3141, 3142>>
      [] m = 2 -> <<4428, 4429>>
      [] OTHER -> <<0, 6284>>

\* the sign of the fraction p
FracSgn(p) == Sgn(p[1])

RECURSIVE SumFracs(_, _)
SumFracs(f, S) ==
    IF S = {} THEN <<0, 1>>
    ELSE LET m == CHOOSE x \in S : TRUE
         IN  FracAdd(f[m], SumFracs(f, S \ {m}))

\* a lower (upper = FALSE) or upper bound of the Real a
RealBound(a, upper) ==
    LET term(m) == LET lo == AngleBounds(m)[1]
                       hi == AngleBounds(m)[2]
                       pick == IF (FracSgn(a.ang[m]) >= 0) = upper THEN hi ELSE lo
                   IN  FracScale(a.ang[m], pick, 1000)
    IN  FracAdd(a.rat, SumFracs([m \in BulgeMags |-> term(m)], BulgeMags))

RealIsPositive(a) == FracSgn(RealBound(a, FALSE)) > 0

RealIsNegative(a) == FracSgn(RealBound(a, TRUE)) < 0

\* A lens is two vertexes at different places joined by two arcs that turn the
\* same way: it runs the way its arcs do.
IsLens(vd) ==
    /\ Len(vd) = 2
    /\ Pos(vd[1]) # Pos(vd[2])
    /\ vd[1].bulge * vd[2].bulge > 0

\* 1 for a counter clockwise cap, lens or triangle, -1 for a clockwise one
Orientation(vd) ==
    IF IsTriangle(vd) THEN Sgn(Cross(Pos(vd[1]), Pos(vd[2]), Pos(vd[3])))
    ELSE IF vd[1].bulge # 0 THEN Sgn(vd[1].bulge) ELSE Sgn(vd[2].bulge)

\* C8: for a closed polyline the signed area after invert_direction is the
\* negation of the area before it; a counter clockwise closed path (cap, lens
\* or triangle) has positive area and a clockwise one negative area.
C8_InvertNegatesArea ==
    /\ (ret.op = "area" /\ inverts = 1 /\ is_closed)
           => ret.val = RealNeg(area(pre.vertex_data, TRUE))
    /\ (/\ ret.op = "area"
        /\ is_closed
        /\ IsCap(vertex_data) \/ IsLens(vertex_data) \/ IsTriangle(vertex_data))
           => IF Orientation(vertex_data) > 0
              THEN RealIsPositive(ret.val)
              ELSE RealIsNegative(ret.val)

\* the counter clockwise circle of radius 2, area 4 pi, inverted: area -4 pi
C8_Witness ==
    /\ ret.op = "area"
    /\ inverts = 1
    /\ is_closed
    /\ pre.vertex_data = <<PlineVertex(0, 0, 1), PlineVertex(4, 0, 1)>>
    /\ ret.val = [rat |-> <<0, 1>>, ang |-> [m \in BulgeMags |-> <<-4, 1>>]]
    /\ RealIsNegative(ret.val)

-----------------------------------------------------------------------------
(* Claims C11 to C20.                                                       *)

\* C11: area is exactly 0 for every open polyline, whatever its vertexes and
\* bulges, and for every closed polyline with fewer than 2 vertexes.
C11_OpenAreaIsZero ==
    (ret.op = "area" /\ (~is_closed \/ Len(vertex_data) < 2))
        => ret.val = RealZero

\* an open polyline with an arc whose segments, were it closed, enclose area
C11_Witness ==
    /\ ret.op = "area"
    /\ ~is_closed
    /\ Len(vertex_data) >= 2
    /\ vertex_data[1].bulge # 0
    /\ area(vertex_data, TRUE) # RealZero
    /\ double_total_area(IterSegments(vertex_data, FALSE), RealZero) # RealZero
    /\ ret.val = RealZero

\* the vertex pairs section 4.1 of the specification asks for, in order
ExpectedSegments(vd, closed) ==
    LET idx == ExpectedSegIndexes(Len(vd), closed)
    IN  [j \in 1..Len(idx) |-> <<At(vd, idx[j][1]), At(vd, idx[j][2])>>]

\* C18: when the visitor answers false on its k-th call, visit_segments calls
\* it exactly k times, with the first k segments of the traversal (closed: the
\* wraparound segment first); a visitor that never answers false sees every
\* segment exactly once, in traversal order.
C18_VisitShortCircuits ==
    ret.op = "visit_segments" =>
        LET all == ExpectedSegments(vertex_data, is_closed)
            k == ret.arg
        IN  IF k = 0 \/ k > Len(all)
            THEN ret.val = all
            ELSE ret.val = SubSeq(all, 1, k)

\* a closed polyline of three different vertexes whose visitor answers false
\* on the wraparound segment
C18_Witness ==
    /\ ret.op = "visit_segments"
    /\ ret.arg = 1
    /\ is_closed
    /\ Len(vertex_data) = 3
    /\ Cardinality({vertex_data[i] : i \in 1..3}) = 3
    /\ ret.val = << <<At(vertex_data, 2), At(vertex_data, 0)>> >>

\* C15: add_or_replace(x, y, bulge, eps) on a non-empty polyline whose last
\* vertex has x and y both within eps of (x, y) leaves the vertex count, the
\* last position and every other vertex as they are and overwrites the last
\* bulge; otherwise it appends the one vertex (x, y, bulge) and changes no
\* existing vertex.
C15_AddOrReplace ==
    [][ret'.op = "add_or_replace" =>
          LET x == ret'.arg[1]
              y == ret'.arg[2]
              bulge == ret'.arg[3]
              eps == ret'.arg[4]
              n == Len(vertex_data)
          IN  /\ is_closed' = is_closed
              /\ IF /\ n > 0
                    /\ Abs(vertex_data[n].x - x) < eps
                    /\ Abs(vertex_data[n].y - y) < eps
                 THEN /\ Len(vertex_data') = n
                      /\ vertex_data'[n].bulge = bulge
                      /\ Pos(vertex_data'[n]) = Pos(vertex_data[n])
                      /\ \A i \in 1..(n - 1) : vertex_data'[i] = vertex_data[i]
                 ELSE vertex_data' = Append(vertex_data, PlineVertex(x, y, bulge))]_vars

\* a replacement: the last vertex is not at the position given (so it was not
\* appended) and carries the bulge given
C15_Witness ==
    /\ ret.op = "add_or_replace"
    /\ Len(vertex_data) = 2
    /\ Pos(vertex_data[2]) # <<ret.arg[1], ret.arg[2]>>
    /\ vertex_data[2].bulge = ret.arg[3]
    /\ vertex_data[2].bulge # 0
    /\ ret.arg[4] = 3

\* C16: remove(index) and set_vertex(index, ...) with index >= len() and
\* remove_last() on an empty polyline end in a panic and leave the vertex
\* sequence as it was; with index < len() remove takes out exactly that vertex
\* and moves the later ones down by one, keeping their order.
C16_IndexBoundedMutators ==
    [][LET n == Len(vertex_data)
       IN  /\ ret'.op = "remove" =>
                 LET index == ret'.arg
                 IN  IF index >= n
                     THEN ret'.val = "panic" /\ vertex_data' = vertex_data
                     ELSE /\ ret'.val = "ok"
                          /\ Len(vertex_data') = n - 1
                          /\ \A j \in 0..(index - 1) : At(vertex_data', j) = At(vertex_data, j)
                          /\ \A j \in index..(n - 2) : At(vertex_data', j) = At(vertex_data, j + 1)
           /\ ret'.op = "set_vertex" =>
                 IF ret'.arg[1] >= n
                 THEN ret'.val = "panic" /\ vertex_data' = vertex_data
                 ELSE ret'.val = "ok"
           /\ ret'.op = "remove_last" =>
                 IF n = 0
                 THEN ret'.val = "panic" /\ vertex_data' = vertex_data
                 ELSE ret'.val = "ok"]_vars

\* remove with the index just past the end of a polyline of two vertexes
C16_Witness ==
    /\ ret.op = "remove"
    /\ ret.arg = 2
    /\ Len(vertex_data) = 2
    /\ ret.val = "panic"

\* the squared distance from point to the segment of the index pair
SegDistSquared(vd, pair, point) ==
    FracDistSquared(point, seg_closest_point(At(vd, pair[1]), At(vd, pair[2]), point))

\* C12: closest_point on at least 2 vertexes returns the least of the segments'
\* distances to the point, and the start index and the closest point of the
\* first segment, in traversal order, at that distance (closed: a tie of the
\* wraparound segment with segment 0 reports n-1); the index reported is the
\* start index of a segment.
C12_ClosestPointFirstMinimal ==
    (ret.op = "closest_point" /\ Len(vertex_data) >= 2) =>
        LET idx == ExpectedSegIndexes(Len(vertex_data), is_closed)
            d(k) == SegDistSquared(vertex_data, idx[k], ret.arg)
            first == CHOOSE k \in 1..Len(idx) :
                         /\ \A j \in 1..Len(idx) : ~FracLess(d(j), d(k))
                         /\ \A j \in 1..(k - 1) : FracLess(d(k), d(j))
        IN  /\ ret.val.some
            /\ ~ret.val.distance_is_max
            /\ ret.val.distance_squared = d(first)
            /\ ret.val.seg_start_index = idx[first][1]
            /\ ret.val.seg_point = seg_closest_point(At(vertex_data, idx[first][1]),
                                                     At(vertex_data, idx[first][2]), ret.arg)
            /\ \E k \in 1..Len(idx) : idx[k][1] = ret.val.seg_start_index

\* the point is the first vertex of a closed polyline of three corners: the
\* wraparound segment and segment 0 both touch it, and 2 is reported
C12_Witness ==
    /\ ret.op = "closest_point"
    /\ is_closed
    /\ Len(vertex_data) = 3
    /\ Cardinality({Pos(vertex_data[i]) : i \in 1..3}) = 3
    /\ ret.arg = Pos(vertex_data[1])
    /\ SegDistSquared(vertex_data, <<2, 0>>, ret.arg) = <<0, 1>>
    /\ SegDistSquared(vertex_data, <<0, 1>>, ret.arg) = <<0, 1>>
    /\ ret.val.seg_start_index = 2

\* C13: closest_point returns no result on an empty polyline and, on a single
\* vertex (open or closed), index 0, the vertex's position and the Euclidean
\* distance from the point to it.
C13_ClosestPointDegenerate ==
    ret.op = "closest_point" =>
        /\ Len(vertex_data) = 0 => ~ret.val.some
        /\ Len(vertex_data) = 1 =>
              LET v == vertex_data[1]
              IN  /\ ret.val.some
                  /\ ret.val.seg_start_index = 0
                  /\ ret.val.seg_point = FracPoint(Pos(v))
                  /\ ~ret.val.distance_is_max
                  /\ ret.val.distance_squared =
                         Frac((ret.arg[1] - v.x) * (ret.arg[1] - v.x)
                              + (ret.arg[2] - v.y) * (ret.arg[2] - v.y), 1)

\* a closed polyline of the one vertex (0, 0) with a bulge, 5 away from (3, 4)
C13_Witness ==
    /\ ret.op = "closest_point"
    /\ is_closed
    /\ Len(vertex_data) = 1
    /\ Pos(vertex_data[1]) = <<0, 0>>
    /\ vertex_data[1].bulge # 0
    /\ ret.arg = <<3, 4>>
    /\ ret.val.distance_squared = <<25, 1>>

\* C14: extents returns no result exactly on the empty polyline; otherwise a
\* box with min_x <= max_x and min_y <= max_y that holds the position of every
\* vertex, and for a single vertex the box of that one position.
C14_Extents ==
    ret.op = "extents" =>
        /\ ret.val.some <=> Len(vertex_data) > 0
        /\ ret.val.some =>
              LET box == ret.val.box
              IN  /\ box.min_x <= box.max_x
                  /\ box.min_y <= box.max_y
                  /\ \A i \in 1..Len(vertex_data) :
                        /\ box.min_x <= vertex_data[i].x /\ vertex_data[i].x <= box.max_x
                        /\ box.min_y <= vertex_data[i].y /\ vertex_data[i].y <= box.max_y
                  /\ Len(vertex_data) = 1 =>
                        box = [min_x |-> vertex_data[1].x, min_y |-> vertex_data[1].y,
                               max_x |-> vertex_data[1].x, max_y |-> vertex_data[1].y]

\* an open polyline of lines whose last vertex alone reaches y = 8
C14_Witness ==
    /\ ret.op = "extents"
    /\ ~is_closed
    /\ Len(vertex_data) = 3
    /\ \A i \in 1..3 : vertex_data[i].bulge = 0
    /\ vertex_data[1].y = 0
    /\ vertex_data[2].y = 0
    /\ Pos(vertex_data[3]) = <<0, 8>>
    /\ ret.val.some
    /\ ret.val.box = [min_x |-> 0, min_y |-> 0, max_x |-> 6, max_y |-> 8]

\* C17: when arcs_to_approx_lines succeeds the result's is_closed is the
\* input's; for an open non-empty input the result's last vertex is the
\* input's last vertex, position and bulge; for an empty input the result is
\* empty.
C17_ApproxKeepsFlagAndLast ==
    (ret.op = "arcs_to_approx_lines" /\ ret.val.some) =>
        /\ ret.val.is_closed = is_closed
        /\ Len(vertex_data) = 0 => ret.val.vertex_data = <<>>
        /\ (~is_closed /\ Len(vertex_data) > 0) =>
              /\ Len(ret.val.vertex_data) > 0
              /\ ret.val.vertex_data[Len(ret.val.vertex_data)] = vertex_data[Len(vertex_data)]

\* an open polyline of two arcs, each approximated by two lines, whose last
\* vertex keeps its bulge
C17_Witness ==
    /\ ret.op = "arcs_to_approx_lines"
    /\ ret.val.some
    /\ ~is_closed
    /\ Len(vertex_data) = 3
    /\ \A i \in 1..3 : vertex_data[i].bulge # 0
    /\ Len(ret.val.vertex_data) = 5
    /\ ret.val.vertex_data[5] = vertex_data[3]
    /\ ret.val.vertex_data[1].bulge = 0

\* every vertex has bulge 0
AllLines(vd) == \A i \in 1..Len(vd) : vd[i].bulge = 0

\* C19: on a polyline without arcs arcs_to_approx_lines returns a polyline of
\* the same vertexes in the same order, open or closed, of any length.
C19_LinesUnchanged ==
    (ret.op = "arcs_to_approx_lines" /\ AllLines(vertex_data)) =>
        /\ ret.val.some
        /\ ret.val.vertex_data = vertex_data

\* a closed triangle of lines comes back starting at its last vertex
C19_Witness ==
    /\ ret.op = "arcs_to_approx_lines"
    /\ is_closed
    /\ vertex_data = <<PlineVertex(0, 0, 0), PlineVertex(6, 0, 0), PlineVertex(0, 8, 0)>>
    /\ ret.val.some
    /\ ret.val.vertex_data
           = <<PlineVertex(0, 8, 0), PlineVertex(0, 0, 0), PlineVertex(6, 0, 0)>>

\* C20: fuzzy_eq_eps answers true only when the two polylines have the same
\* number of vertexes and every pair of corresponding vertexes is fuzzy equal
\* within the epsilon.
C20_FuzzyEqIsEquality ==
    (ret.op = "fuzzy_eq_eps" /\ ret.val) =>
        LET other == ret.arg[1]
            eps == ret.arg[2]
        IN  /\ Len(other) = Len(vertex_data)
            /\ \A i \in 1..Len(vertex_data) :
                   /\ Abs(vertex_data[i].x - other[i].x) < eps
                   /\ Abs(vertex_data[i].y - other[i].y) < eps
                   /\ Abs(vertex_data[i].bulge - other[i].bulge) < eps

\* the empty polyline compared with one of three vertexes
C20_Witness ==
    /\ ret.op = "fuzzy_eq_eps"
    /\ vertex_data = <<>>
    /\ Len(ret.arg[1]) = 3
    /\ ret.val

=============================================================================
